---- MODULE Spec2Model ----
(***************************************************************************)
(* The oscillation conflict engine of                                      *)
(* src/core/recursive_improvement/engines/oscillation_conflict_engine.py   *)
(* as a state machine: one engine instance, its fields, and the position   *)
(* and locals of the detect_and_resolve_conflicts call in progress.        *)
(*                                                                         *)
(* Floats are modelled as exact rationals [n, d] in lowest terms, wall     *)
(* clock readings as ticks of a logical clock that advances when a run     *)
(* starts and when it is finalized, and the wall-clock success gate        *)
(* (time.time() % 1 < p, with 0 < p < 1) as a free boolean.                *)
(*                                                                         *)
(* Further down: two callers of one shared engine, the agent of            *)
(* src/agents/oscillation_conflict_agent.py (governance log and manifest)  *)
(* and the breadth-first loop of FlashSyncNetwork.flash_sync               *)
(* (src/scripts/flash_sync_demo.py and cross_repo_flash_sync_pow.py),      *)
(* each with its own variables and its own specification.                  *)
(***************************************************************************)
EXTENDS Integers, Sequences, FiniteSets, TLC

VARIABLES
    config,                         \* constructor arguments (lines 101-105)
    lookup,                         \* which target table the scan consults
    hashseed,                       \* the process's string-hash seed
    clock,                          \* logical wall clock
    current_frequency,
    cycles_completed,
    conflicts_detected,
    conflicts_resolved,
    resolution_strategies_applied,
    execution_start_time,
    execution_end_time,
    audit_trail,
    pc,                             \* position of the call in progress
    target,                         \* locals of detect_and_resolve_conflicts
    conflicts,
    remaining_conflicts,
    cycle,
    resolved_ids,                   \* locals of _resolve_conflicts_cycle
    pos,
    ret,                            \* outcome of the last completed call
    runs,                           \* calls of detect_and_resolve_conflicts made
    suspended,                      \* the suspended caller of a shared engine
    switches,                       \* context switches between the two callers
    agent_pc,                       \* position of resolve_conflicts_100x
    request,                        \* its arguments
    governance_log,                 \* its governance log (a dict)
    ledger,                         \* the governance log file last saved
    results,                        \* its results dict
    raised,                         \* the exception caught at line 100
    agent_ret,                      \* outcome of the last completed execution
    executions,                     \* calls of resolve_conflicts_100x made
    manifest,                       \* the agent manifest file
    manifest_calls,                 \* arguments of the _update_agent_manifest calls
    connections,                    \* Repository.connections, by repository
    innovations,                    \* copies of the innovation, by repository
    verifies,                       \* whether the proof of work verifies
    sync_pc,                        \* position of flash_sync
    origin_repo,                    \* locals of flash_sync
    synced_repos,
    sync_queue

vars == <<config, lookup, hashseed, clock, current_frequency, cycles_completed,
          conflicts_detected, conflicts_resolved, resolution_strategies_applied,
          execution_start_time, execution_end_time, audit_trail, pc, target,
          conflicts, remaining_conflicts, cycle, resolved_ids, pos, ret, runs,
          suspended, switches, agent_pc, request, governance_log, ledger, results,
          raised, agent_ret, executions, manifest, manifest_calls, connections,
          innovations, verifies, sync_pc, origin_repo, synced_repos, sync_queue>>

engine == <<current_frequency, cycles_completed, conflicts_detected,
            conflicts_resolved, resolution_strategies_applied,
            execution_start_time, execution_end_time, audit_trail>>

locals == <<target, conflicts, remaining_conflicts, cycle, resolved_ids, pos>>

\* the state of src/agents/oscillation_conflict_agent.py
agent == <<agent_pc, request, governance_log, ledger, results, raised,
           agent_ret, executions, manifest, manifest_calls>>

\* the state of FlashSyncNetwork (src/scripts/flash_sync_demo.py and
\* src/scripts/cross_repo_flash_sync_pow.py)
network == <<connections, innovations, verifies, sync_pc, origin_repo,
             synced_repos, sync_queue>>

-----------------------------------------------------------------------------
(* Bounds of the model *)

MaxRuns == 2          \* calls of detect_and_resolve_conflicts per engine
MaxSwitches == 1      \* switches that interrupt a call of a shared engine
MaxHashSeed == 1      \* hash seeds range over 0..MaxHashSeed
ShortCycles == 2      \* max_cycles of the short configurations
LongCycles == 11      \* max_cycles of the configuration that passes cycle 10

-----------------------------------------------------------------------------
(* Exact rationals *)

\* Call by value: the arguments are evaluated once, before the call, and the
\* body works on their values
ByValue2(F(_, _), x, y) == CHOOSE r \in {F(v, w) : v \in {x}, w \in {y}} : TRUE

Abs(x) == IF x < 0 THEN -x ELSE x

RECURSIVE GCD(_, _)
GCD(a, b) ==
    ByValue2(LAMBDA va, vb : IF vb = 0 THEN va ELSE GCD(vb, va % vb), a, b)

\* n/d in lowest terms with a positive denominator (d # 0)
Rat(n, d) ==
    ByValue2(LAMBDA vn, vd :
                 ByValue2(LAMBDA g, s : [n |-> (s * vn) \div g, d |-> (s * vd) \div g],
                          GCD(Abs(vn), Abs(vd)),
                          IF vd < 0 THEN -1 ELSE 1),
             n, d)

RInt(k) == [n |-> k, d |-> 1]
RAdd(x, y) == ByValue2(LAMBDA a, b : Rat(a.n * b.d + b.n * a.d, a.d * b.d), x, y)
RSub(x, y) == ByValue2(LAMBDA a, b : Rat(a.n * b.d - b.n * a.d, a.d * b.d), x, y)
RMul(x, y) == ByValue2(LAMBDA a, b : Rat(a.n * b.n, a.d * b.d), x, y)
RLe(x, y) == ByValue2(LAMBDA a, b : a.n * b.d <= b.n * a.d, x, y)
RLt(x, y) == ByValue2(LAMBDA a, b : a.n * b.d < b.n * a.d, x, y)
RMin(x, y) == ByValue2(LAMBDA a, b : IF RLe(a, b) THEN a ELSE b, x, y)
RMax(x, y) == ByValue2(LAMBDA a, b : IF RLe(b, a) THEN a ELSE b, x, y)

-----------------------------------------------------------------------------
(* Enumerations and the strategy table *)

None == <<>>
Some(x) == <<x>>

ConflictType ==
    "DEPENDENCY" :> 1 @@ "MERGE" :> 2 @@ "RESOURCE" :> 3 @@ "LOGIC" :> 4 @@
    "TEMPORAL" :> 5

ConflictTypes == DOMAIN ConflictType

strategy_map ==
    "DEPENDENCY" :> <<"VERSION_UPGRADE", "VERSION_DOWNGRADE",
                      "DEPENDENCY_ISOLATION", "CIRCULAR_BREAK">> @@
    "MERGE"      :> <<"LINE_BY_LINE_MERGE", "SEMANTIC_RESOLUTION",
                      "CONTEXT_PRESERVATION", "CHANGE_ISOLATION">> @@
    "RESOURCE"   :> <<"RESOURCE_THROTTLING", "PRIORITY_ALLOCATION",
                      "DEFERRED_EXECUTION", "RESOURCE_POOLING">> @@
    "LOGIC"      :> <<"CONSTRAINT_RELAXATION", "CIRCULAR_IMPORT_RESOLUTION",
                      "LOGICAL_RESTRUCTURING", "PARTIAL_EXECUTION">> @@
    "TEMPORAL"   :> <<"LOCK_OPTIMIZATION", "SYNCHRONIZATION_BARRIER",
                      "DEADLOCK_PREVENTION", "RACE_CONDITION_ELIMINATION">>

-----------------------------------------------------------------------------
(* Constructor arguments explored.  __init__ stores whatever it is given.   *)

DefaultCfg ==
    [base_frequency |-> 100, max_frequency |-> 10000, max_cycles |-> ShortCycles,
     convergence_threshold |-> Rat(1, 1000), enable_audit_trail |-> TRUE]

NoAuditCfg == [DefaultCfg EXCEPT !.enable_audit_trail = FALSE]

LongCfg ==
    [DefaultCfg EXCEPT !.max_cycles = LongCycles,
                       !.convergence_threshold = Rat(1, 2)]

\* the default arguments with enough cycles for the threshold rule to be
\* consulted
DefaultLongCfg == [DefaultCfg EXCEPT !.max_cycles = LongCycles]

InvertedCfg ==
    [DefaultCfg EXCEPT !.base_frequency = 200, !.max_frequency = 100]

NoCyclesCfg == [DefaultCfg EXCEPT !.max_cycles = 0]

NegCyclesCfg == [DefaultCfg EXCEPT !.max_cycles = -1]

BadThresholdCfg == [LongCfg EXCEPT !.convergence_threshold = Rat(3, 2)]

Configs ==
    {DefaultCfg, NoAuditCfg, LongCfg, InvertedCfg, NoCyclesCfg, NegCyclesCfg,
     BadThresholdCfg}

\* The default arguments, run for ShortCycles and for LongCycles cycles
DefaultConfigs == {DefaultCfg, DefaultLongCfg}

Targets == {"system", "repository", "module"}

\* A target whose table entry holds no batch; the source's table has none.
EmptyTarget == "empty"

TargetsOf(table) ==
    IF table = "extended" THEN Targets \cup {EmptyTarget} ELSE Targets

\* The runs explored: every target on every configuration, except that the
\* configurations with LongCycles cycles are run on the smallest batches only.
Scenarios ==
    {s \in (Configs \cup DefaultConfigs) \X (Targets \cup {EmptyTarget}) :
        s[1].max_cycles >= LongCycles => s[2] \in {"module", EmptyTarget}}

\* The targets two callers of one shared engine are run on: the smallest
\* batches
SharedTargets == {"module"}

-----------------------------------------------------------------------------
(* Dictionaries: sequences of entries with distinct ids, in insertion order *)

Keys(d) == {d[k].id : k \in 1..Len(d)}

IndexOf(d, id) == CHOOSE k \in 1..Len(d) : d[k].id = id

\* dict[id] = value
DictSet(d, e) ==
    ByValue2(LAMBDA vd, ve : IF ve.id \in Keys(vd)
                             THEN [vd EXCEPT ![IndexOf(vd, ve.id)] = ve]
                             ELSE Append(vd, ve),
             d, e)

\* dict.update(other)
RECURSIVE DictUpdate(_, _)
DictUpdate(d, other) ==
    IF other = <<>> THEN d
    ELSE DictUpdate(DictSet(d, Head(other)), Tail(other))

\* list without the element x (dict.pop on a dict of keys)
RECURSIVE Without(_, _)
Without(s, x) ==
    IF s = <<>> THEN <<>>
    ELSE IF Head(s) = x THEN Without(Tail(s), x)
    ELSE <<Head(s)>> \o Without(Tail(s), x)

-----------------------------------------------------------------------------
(* _record_audit_event *)

\* the same without the enable_audit_trail guard of lines 613-614
RecordAuditEventAlways(trail, event_type, details) ==
    Append(trail, [event_type |-> event_type, details |-> details])

\* the same with line 616 inserting at the front: audit_trail.insert(0, ...)
RecordAuditEventAtFront(trail, event_type, details) ==
    IF ~config.enable_audit_trail
    THEN trail
    ELSE <<[event_type |-> event_type, details |-> details]>> \o trail

RecordAuditEvent(trail, event_type, details) ==
    IF ~config.enable_audit_trail
    THEN trail
    ELSE Append(trail, [event_type |-> event_type, details |-> details])

-----------------------------------------------------------------------------
(* Detection *)

\* hashlib.md5(f'{time.time()}_{i}'.encode()).hexdigest()[:8]: a digest of the
\* clock reading and the index, cut to a fixed width
Digest(now, i) == (31 * now + 17 * i) % 4096

\* f"{conflict_type.name.lower()}_{i}_{digest}", and the same id with the
\* index left out of both the id and the digest
ConflictIdWithoutIndex(conflict_type, i, now) == <<conflict_type, 0, Digest(now, 0)>>

ConflictId(conflict_type, i, now) == <<conflict_type, i, Digest(now, i)>>

\* _generate_simulated_conflicts(conflict_type, count), the clock reading now
RECURSIVE GenerateFrom(_, _, _, _)
GenerateFrom(conflict_type, i, count, now) ==
    IF i >= count THEN <<>>
    ELSE <<[id |-> ConflictId(conflict_type, i, now),
            type |-> conflict_type,
            resolved |-> FALSE,
            resolution_attempts |-> 0]>>
         \o GenerateFrom(conflict_type, i + 1, count, now)

GenerateSimulatedConflicts(conflict_type, count, now) ==
    DictUpdate(<<>>, GenerateFrom(conflict_type, 0, count, now))

\* the batches _scan_for_conflicts asks for: <<type, count>> in call order
SourceBatches(t) ==
    IF t = "system" THEN <<<<"DEPENDENCY", 2>>, <<"RESOURCE", 1>>, <<"TEMPORAL", 1>>>>
    ELSE IF t = "repository" THEN <<<<"MERGE", 3>>, <<"LOGIC", 2>>>>
    ELSE <<<<"DEPENDENCY", 1>>, <<"MERGE", 1>>, <<"LOGIC", 1>>>>

\* the source's table with one more entry, for EmptyTarget, holding no batch
ExtendedBatches(t) == IF t = EmptyTarget THEN <<>> ELSE SourceBatches(t)

Batches(t) ==
    IF lookup = "extended" THEN ExtendedBatches(t) ELSE SourceBatches(t)

\* conflicts = {}; conflicts.update(batch) for each batch
RECURSIVE MergeBatches(_, _, _, _)
MergeBatches(d, batches, k, now) ==
    IF k > Len(batches) THEN d
    ELSE MergeBatches(
             DictUpdate(d, GenerateSimulatedConflicts(batches[k][1], batches[k][2],
                                                      now)),
             batches, k + 1, now)

ScanForConflicts(t, now) == MergeBatches(<<>>, Batches(t), 1, now)

\* hash(conflict_id): an integer fixed by the id and the process's hash seed
\* (Python's % takes the sign of the modulus, so only the residue matters)
SeededHash(seed, id) == seed + 7 * ConflictType[id[1]] + 3 * id[2] + id[3]

Hash(id) == SeededHash(hashseed, id)

-----------------------------------------------------------------------------
(* _adjust_frequency *)

\* line 501 without its min: cycle / self.max_cycles
CycleFactorUncapped(c) == Rat(c, config.max_cycles)

CycleFactor(c) == RMin(Rat(c, config.max_cycles), Rat(8, 10))

\* lines 504-507: resolution_factor, and the fraction still unresolved
\* taken instead
ResolutionFactorRemaining(remaining) ==
    IF conflicts_detected > 0
    THEN Rat(remaining, conflicts_detected)
    ELSE RInt(0)

ResolutionFactor(remaining) ==
    IF conflicts_detected > 0
    THEN Rat(conflicts_detected - remaining, conflicts_detected)
    ELSE RInt(0)

NewFrequency(c, remaining) ==
    RAdd(RInt(config.base_frequency),
         RMul(RInt(config.max_frequency - config.base_frequency),
              RAdd(Rat(2, 10),
                   RAdd(RMul(Rat(4, 10), CycleFactor(c)),
                        RMul(Rat(4, 10), ResolutionFactor(remaining))))))

\* max(base_frequency, min(new_frequency, max_frequency))
ClampFrequency(f) ==
    RMax(RInt(config.base_frequency), RMin(f, RInt(config.max_frequency)))

AdjustedFrequency(c, remaining) == ClampFrequency(NewFrequency(c, remaining))

-----------------------------------------------------------------------------
(* _resolve_conflicts_cycle and _apply_resolution_strategy *)

\* line 415 with the cycle left out of the index
StrategyIndexWithoutCycle(c, id, n) == Hash(id) % n

StrategyIndex(c, id, n) == (c + Hash(id)) % n

RECURSIVE PositionIn(_, _, _)
PositionIn(list, x, k) ==
    IF k > Len(list) THEN 0
    ELSE IF list[k] = x THEN k
    ELSE PositionIn(list, x, k + 1)

\* the same without the cap of line 459: (0.3 + cycle * 0.1) * effectiveness
SuccessProbabilityUncapped(conflict_type, strategy, c) ==
    LET base_probability == RAdd(Rat(3, 10), RMul(RInt(c), Rat(1, 10)))
        k == PositionIn(strategy_map[conflict_type], strategy, 1)
        strategy_effectiveness ==
            IF k > 0 THEN RSub(Rat(9, 10), RMul(RInt(k - 1), Rat(1, 10)))
            ELSE Rat(5, 10)
    IN  RMul(base_probability, strategy_effectiveness)

\* min(0.3 + cycle * 0.1, 0.9) * strategy_effectiveness
SuccessProbability(conflict_type, strategy, c) ==
    LET base_probability == RMin(RAdd(Rat(3, 10), RMul(RInt(c), Rat(1, 10))),
                                 Rat(9, 10))
        k == PositionIn(strategy_map[conflict_type], strategy, 1)
        strategy_effectiveness ==
            IF k > 0 THEN RSub(Rat(9, 10), RMul(RInt(k - 1), Rat(1, 10)))
            ELSE Rat(5, 10)
    IN  RMul(base_probability, strategy_effectiveness)

AttemptEvent(conflict, strategy, c, success) ==
    [conflict_id |-> conflict.id,
     conflict_type |-> conflict.type,
     strategy |-> strategy,
     cycle |-> c,
     success |-> success,
     success_probability |-> SuccessProbability(conflict.type, strategy, c)]

\* lines 428-434 with the last line an assignment (= 1) for the increment
TallySuccessNotAccumulated(tally, conflict_type, strategy) ==
    LET key == <<conflict_type, strategy>>
    IN  [k \in DOMAIN tally \cup {key} |-> IF k = key THEN 1 ELSE tally[k]]

TallySuccess(tally, conflict_type, strategy) ==
    LET key == <<conflict_type, strategy>>
    IN  IF key \in DOMAIN tally
        THEN [tally EXCEPT ![key] = @ + 1]
        ELSE [k \in DOMAIN tally \cup {key} |->
                 IF k = key THEN 1 ELSE tally[k]]

NoTally == [k \in {} |-> 0]

-----------------------------------------------------------------------------
(* _check_convergence *)

MinConvergenceCycle == 10

\* the same with cycle > 10 for cycle >= 10
CheckConvergenceLate(c, remaining) ==
    \/ remaining = 0
    \/ /\ c > MinConvergenceCycle
       /\ conflicts_detected > 0
       /\ RLe(Rat(remaining, conflicts_detected), config.convergence_threshold)

\* the same with the comparison of line 542 turned round
CheckConvergenceAbove(c, remaining) ==
    \/ remaining = 0
    \/ /\ c >= MinConvergenceCycle
       /\ conflicts_detected > 0
       /\ RLe(config.convergence_threshold, Rat(remaining, conflicts_detected))

CheckConvergence(c, remaining) ==
    \/ remaining = 0
    \/ /\ c >= MinConvergenceCycle
       /\ conflicts_detected > 0
       /\ RLe(Rat(remaining, conflicts_detected), config.convergence_threshold)

-----------------------------------------------------------------------------
(* _generate_results *)

\* the same with the ratio of line 581 (nothing detected) taken in every run
GenerateResultsFullRatio(t) ==
    [target |-> t,
     execution_time |-> execution_end_time[1] - execution_start_time[1],
     conflicts_detected |-> conflicts_detected,
     conflicts_resolved |-> conflicts_resolved,
     resolution_rate |-> RMul(RInt(1), RInt(100)),
     cycles_completed |-> cycles_completed,
     strategies_applied |-> resolution_strategies_applied,
     efficiency_multiplier |-> RMul(Rat(1133, 10), RInt(1))]

GenerateResults(t) ==
    LET resolution_ratio ==
            IF conflicts_detected > 0
            THEN Rat(conflicts_resolved, conflicts_detected)
            ELSE RInt(1)
    IN  [target |-> t,
         execution_time |-> execution_end_time[1] - execution_start_time[1],
         conflicts_detected |-> conflicts_detected,
         conflicts_resolved |-> conflicts_resolved,
         resolution_rate |-> RMul(resolution_ratio, RInt(100)),
         cycles_completed |-> cycles_completed,
         strategies_applied |-> resolution_strategies_applied,
         efficiency_multiplier |-> RMul(Rat(1133, 10), resolution_ratio)]

NoReturn == [op |-> "none", error |-> "", value |-> <<>>]

-----------------------------------------------------------------------------
(* get_oscillation_status: a read of the engine's fields, at the clock
   reading now *)

GetOscillationStatus(now) ==
    [current_frequency |-> current_frequency,
     cycles_completed |-> cycles_completed,
     conflicts_detected |-> conflicts_detected,
     conflicts_resolved |-> conflicts_resolved,
     resolution_strategies_applied |-> resolution_strategies_applied,
     execution_active |->
         execution_start_time # None /\ execution_end_time = None,
     execution_time |->
         IF execution_start_time = None THEN None
         ELSE IF execution_end_time = None
              THEN Some(now - execution_start_time[1])
              ELSE Some(execution_end_time[1] - execution_start_time[1])]

-----------------------------------------------------------------------------
(* State after __init__ *)

NoLocals ==
    /\ target = ""
    /\ conflicts = <<>>
    /\ remaining_conflicts = <<>>
    /\ cycle = 0
    /\ resolved_ids = <<>>
    /\ pos = 0

Constructed(cfg) ==
    /\ config = cfg
    /\ current_frequency = RInt(cfg.base_frequency)
    /\ cycles_completed = 0
    /\ conflicts_detected = 0
    /\ conflicts_resolved = 0
    /\ resolution_strategies_applied = NoTally
    /\ execution_start_time = None
    /\ execution_end_time = None
    /\ audit_trail = <<>>

\* no execution of the agent started and no manifest written
NoAgent ==
    /\ agent_pc = "idle"
    /\ request = None
    /\ governance_log = None
    /\ ledger = None
    /\ results = None
    /\ raised = None
    /\ agent_ret = NoReturn
    /\ executions = 0
    /\ manifest = None
    /\ manifest_calls = <<>>

\* no repository network built
NoNetwork ==
    /\ connections = <<>>
    /\ innovations = <<>>
    /\ verifies = TRUE
    /\ sync_pc = "idle"
    /\ origin_repo = 0
    /\ synced_repos = <<>>
    /\ sync_queue = <<>>

InitOf(table, cfgs) ==
    /\ lookup = table
    /\ \E cfg \in cfgs : Constructed(cfg)
    /\ hashseed \in 0..MaxHashSeed
    /\ clock = 1
    /\ pc = "idle"
    /\ NoLocals
    /\ ret = NoReturn
    /\ runs = 0
    /\ suspended = None
    /\ switches = 0
    /\ NoAgent
    /\ NoNetwork

InitWith(table) == InitOf(table, Configs)

Init == InitWith("source")

InitDefault == InitOf("source", DefaultConfigs)

InitExtended == InitWith("extended")

-----------------------------------------------------------------------------
(* detect_and_resolve_conflicts *)

\* line 168: self.audit_trail = [], and the trail left as it is
KeepTrail(trail) == trail

ResetTrail(trail) == <<>>

\* line 166: self.conflicts_resolved = 0, and the counter left as it is
KeepResolved(n) == n

ResetResolved(n) == 0

\* line 177: if self.conflicts_detected == 0, and the test left out
NeverNothingDetected == FALSE

NothingDetected == conflicts_detected = 0

\* lines 163-171: take the start time, reset the counters, record engine_start
StartRun(t) ==
    /\ pc = "idle"
    /\ runs < MaxRuns
    /\ t \in TargetsOf(lookup)
    /\ <<config, t>> \in Scenarios
    /\ suspended # None => t \in SharedTargets
    /\ execution_start_time' = Some(clock)
    /\ clock' = clock + 1
    /\ cycles_completed' = 0
    /\ conflicts_detected' = 0
    /\ conflicts_resolved' = ResetResolved(conflicts_resolved)
    /\ resolution_strategies_applied' = NoTally
    /\ audit_trail' = RecordAuditEvent(ResetTrail(audit_trail), "engine_start",
                                       [target |-> t])
    /\ target' = t
    /\ pc' = "scan"
    /\ ret' = NoReturn
    /\ runs' = runs + 1
    /\ UNCHANGED <<agent, network, config, lookup, hashseed, suspended, switches,
                   current_frequency, execution_end_time,
                   conflicts, remaining_conflicts, cycle, resolved_ids, pos>>

\* lines 174-175: _scan_for_conflicts at the base frequency, then the count
Scan ==
    /\ pc = "scan"
    /\ LET found == ScanForConflicts(target, clock)
       IN  /\ conflicts' = found
           /\ audit_trail' =
                  RecordAuditEvent(audit_trail, "scan_complete",
                      [frequency |-> RInt(config.base_frequency),
                       conflicts_found |-> Len(found)])
           /\ conflicts_detected' = Len(found)
    /\ pc' = "detected"
    /\ UNCHANGED <<agent, network, config, lookup, hashseed, suspended, switches,
                   clock, current_frequency, cycles_completed,
                   conflicts_resolved, resolution_strategies_applied,
                   execution_start_time, execution_end_time, target,
                   remaining_conflicts, cycle, resolved_ids, pos, ret, runs>>

\* lines 177-186: nothing detected, or record the count and copy the dict
Detected ==
    /\ pc = "detected"
    /\ IF NothingDetected
       THEN /\ pc' = "finalize"
            /\ UNCHANGED <<audit_trail, remaining_conflicts, cycle>>
       ELSE /\ audit_trail' =
                   RecordAuditEvent(audit_trail, "conflicts_detected",
                                    [count |-> conflicts_detected])
            /\ remaining_conflicts' = [k \in 1..Len(conflicts) |-> conflicts[k].id]
            /\ cycle' = 1
            /\ pc' = "loop"
    /\ UNCHANGED <<agent, network, config, lookup, hashseed, suspended, switches,
                   clock, current_frequency, cycles_completed,
                   conflicts_detected, conflicts_resolved,
                   resolution_strategies_applied, execution_start_time,
                   execution_end_time, target, conflicts, resolved_ids, pos, ret,
                   runs>>

\* line 188: for cycle in range(1, self.max_cycles + 1), and the same range
\* one cycle longer
LoopExhaustedLate(c) == c > config.max_cycles + 1

LoopExhausted(c) == c > config.max_cycles

\* lines 188-194: the loop test, the empty-dict break and _adjust_frequency
LoopHead ==
    /\ pc = "loop"
    /\ IF LoopExhausted(cycle) \/ remaining_conflicts = <<>>
       THEN /\ pc' = "after_loop"
            /\ UNCHANGED <<current_frequency, audit_trail, resolved_ids, pos>>
       ELSE LET f == AdjustedFrequency(cycle, Len(remaining_conflicts))
            IN  /\ current_frequency' = f
                /\ audit_trail' =
                       RecordAuditEvent(audit_trail, "frequency_adjustment",
                           [cycle |-> cycle,
                            new_frequency |-> f,
                            cycle_factor |-> CycleFactor(cycle),
                            resolution_factor |->
                                ResolutionFactor(Len(remaining_conflicts))])
                /\ resolved_ids' = <<>>
                /\ pos' = 1
                /\ pc' = "resolve"
    /\ UNCHANGED <<agent, network, config, lookup, hashseed, suspended, switches,
                   clock, cycles_completed, conflicts_detected,
                   conflicts_resolved, resolution_strategies_applied,
                   execution_start_time, execution_end_time, target, conflicts,
                   remaining_conflicts, cycle, ret, runs>>

\* lines 403-434: one pass of the loop of _resolve_conflicts_cycle, with the
\* call of _apply_resolution_strategy (lines 453-490) it makes.
\* CountResolved is the increment of line 425 under the test of line 422;
\* CountEveryAttempt is the same increment outside the test.
CountEveryAttempt(n, success) == n + 1

CountResolved(n, success) == IF success THEN n + 1 ELSE n

\* lines 453 and 424: the attempt counted, and the same with line 424
\* (conflict['resolved'] = True) left out
AfterAttemptUnmarked(conflict, success) ==
    [conflict EXCEPT !.resolution_attempts = @ + 1]

\* the same with the increment of line 453 made on success only
AfterAttemptCountedOnSuccess(conflict, success) ==
    [conflict EXCEPT !.resolution_attempts = IF success THEN @ + 1 ELSE @,
                     !.resolved = IF success THEN TRUE ELSE @]

AfterAttempt(conflict, success) ==
    [conflict EXCEPT !.resolution_attempts = @ + 1,
                     !.resolved = IF success THEN TRUE ELSE @]

ResolveStep ==
    /\ pc = "resolve"
    /\ pos <= Len(remaining_conflicts)
    /\ LET id == remaining_conflicts[pos]
           k == IndexOf(conflicts, id)
           conflict == conflicts[k]
           strategies == strategy_map[conflict.type]
       IN  IF conflict.resolved \/ strategies = <<>>
           THEN UNCHANGED <<conflicts, audit_trail, resolved_ids,
                            conflicts_resolved, resolution_strategies_applied>>
           ELSE LET strategy ==
                        strategies[StrategyIndex(cycle, id, Len(strategies)) + 1]
                IN  \E success \in BOOLEAN :
                       /\ conflicts' =
                              [conflicts EXCEPT ![k] = AfterAttempt(conflict, success)]
                       /\ audit_trail' =
                              RecordAuditEvent(audit_trail, "resolution_attempt",
                                  AttemptEvent(conflict, strategy, cycle, success))
                       /\ resolved_ids' =
                              IF success THEN Append(resolved_ids, id)
                              ELSE resolved_ids
                       /\ conflicts_resolved' =
                              CountResolved(conflicts_resolved, success)
                       /\ resolution_strategies_applied' =
                              IF success
                              THEN TallySuccess(resolution_strategies_applied,
                                                conflict.type, strategy)
                              ELSE resolution_strategies_applied
    /\ pos' = pos + 1
    /\ UNCHANGED <<agent, network, config, lookup, hashseed, suspended, switches,
                   clock, current_frequency,
                   cycles_completed, conflicts_detected, execution_start_time,
                   execution_end_time, pc, target, remaining_conflicts, cycle,
                   ret, runs>>

\* lines 200-202: pop every newly resolved id that is still a key, and the
\* dict left as it is
PopNothing(remaining, ids) == remaining

\* the same loop stopped after its first pass
PopFirstResolved(remaining, ids) ==
    IF ids = <<>> THEN remaining ELSE Without(remaining, Head(ids))

RECURSIVE PopResolved(_, _)
PopResolved(remaining, ids) ==
    IF ids = <<>> THEN remaining
    ELSE PopResolved(Without(remaining, Head(ids)), Tail(ids))

\* line 436 and lines 200-209: the cycle returns its resolved ids, they leave
\* the remaining dict, then the convergence check and the cycle count
EndCycle ==
    /\ pc = "resolve"
    /\ pos > Len(remaining_conflicts)
    /\ LET left == PopResolved(remaining_conflicts, resolved_ids)
       IN  /\ remaining_conflicts' = left
           /\ IF CheckConvergence(cycle, Len(left))
              THEN /\ pc' = "after_loop"
                   /\ UNCHANGED <<cycles_completed, cycle>>
              ELSE /\ cycles_completed' = cycle
                   /\ cycle' = cycle + 1
                   /\ pc' = "loop"
    /\ resolved_ids' = <<>>
    /\ pos' = 0
    /\ UNCHANGED <<agent, network, config, lookup, hashseed, suspended, switches,
                   clock, current_frequency,
                   conflicts_detected, conflicts_resolved,
                   resolution_strategies_applied, execution_start_time,
                   execution_end_time, audit_trail, target, conflicts, ret, runs>>

\* lines 212-216: the warning for what is left
AfterLoop ==
    /\ pc = "after_loop"
    /\ audit_trail' =
           IF remaining_conflicts # <<>>
           THEN RecordAuditEvent(audit_trail, "unresolved_conflicts",
                                 [count |-> Len(remaining_conflicts)])
           ELSE audit_trail
    /\ pc' = "finalize"
    /\ UNCHANGED <<agent, network, config, lookup, hashseed, suspended, switches,
                   clock, current_frequency,
                   cycles_completed, conflicts_detected, conflicts_resolved,
                   resolution_strategies_applied, execution_start_time,
                   execution_end_time, target, conflicts, remaining_conflicts,
                   cycle, resolved_ids, pos, ret, runs>>

\* lines 179 and 218: _finalize_execution (lines 548-560)
FinalizeExecution ==
    /\ pc = "finalize"
    /\ execution_end_time' = Some(clock)
    /\ clock' = clock + 1
    /\ audit_trail' =
           RecordAuditEvent(audit_trail, "engine_stop",
               [execution_time |-> clock - execution_start_time[1],
                conflicts_resolved |-> conflicts_resolved,
                conflicts_detected |-> conflicts_detected,
                cycles_completed |-> cycles_completed])
    /\ pc' = "results"
    /\ UNCHANGED <<agent, network, config, lookup, hashseed, suspended, switches,
                   current_frequency, cycles_completed,
                   conflicts_detected, conflicts_resolved,
                   resolution_strategies_applied, execution_start_time, target,
                   conflicts, remaining_conflicts, cycle, resolved_ids, pos, ret,
                   runs>>

\* lines 180 and 219: return self._generate_results(target)
Return ==
    /\ pc = "results"
    /\ ret' = [op |-> "run", error |-> "", value |-> GenerateResults(target)]
    /\ pc' = "idle"
    /\ target' = ""
    /\ conflicts' = <<>>
    /\ remaining_conflicts' = <<>>
    /\ cycle' = 0
    /\ resolved_ids' = <<>>
    /\ pos' = 0
    /\ UNCHANGED <<agent, network, config, lookup, hashseed, suspended, switches,
                   clock, runs, engine>>

-----------------------------------------------------------------------------
(* export_audit_trail, called between runs *)

ExportFails == ~config.enable_audit_trail \/ audit_trail = <<>>

ExportAuditTrail ==
    /\ pc = "idle"
    /\ ret' = IF ExportFails
              THEN [op |-> "export", error |-> "ValueError", value |-> <<>>]
              ELSE [op |-> "export", error |-> "",
                    value |-> [conflicts_detected |-> conflicts_detected,
                               conflicts_resolved |-> conflicts_resolved,
                               cycles_completed |-> cycles_completed,
                               audit_trail |-> audit_trail]]
    /\ UNCHANGED <<agent, network, config, lookup, hashseed, suspended, switches,
                   clock, pc, runs, engine, locals>>

-----------------------------------------------------------------------------

Next ==
    \/ \E t \in Targets \cup {EmptyTarget} : StartRun(t)
    \/ Scan
    \/ Detected
    \/ LoopHead
    \/ ResolveStep
    \/ EndCycle
    \/ AfterLoop
    \/ FinalizeExecution
    \/ Return
    \/ ExportAuditTrail

Spec == Init /\ [][Next]_vars

SpecExtended == InitExtended /\ [][Next]_vars

SpecDefault == InitDefault /\ [][Next]_vars

\* detect_and_resolve_conflicts is straight-line synchronous code: once called,
\* each of its steps follows the one before without waiting for anything
RunStep ==
    \/ Scan
    \/ Detected
    \/ LoopHead
    \/ ResolveStep
    \/ EndCycle
    \/ AfterLoop
    \/ FinalizeExecution
    \/ Return

SpecFair == Spec /\ WF_vars(RunStep)

-----------------------------------------------------------------------------
(* Reading the audit trail *)

EventTypes(trail) == [k \in 1..Len(trail) |-> trail[k].event_type]

EventsOf(trail, event_type) ==
    {k \in 1..Len(trail) : trail[k].event_type = event_type}

CycleEvents(trail) ==
    EventsOf(trail, "frequency_adjustment") \cup EventsOf(trail, "resolution_attempt")

RunReturned == pc = "idle" /\ ret.op = "run"

-----------------------------------------------------------------------------
(* C1: in every state of a run, and in the result it returns,
   conflicts_resolved <= conflicts_detected. *)
C1_ResolvedAtMostDetected ==
    /\ conflicts_resolved <= conflicts_detected
    /\ ret.op = "run" =>
           ret.value.conflicts_resolved <= ret.value.conflicts_detected

\* a run that resolved some but not all of its conflicts, after a failed attempt
C1_Witness ==
    /\ RunReturned
    /\ 0 < ret.value.conflicts_resolved
    /\ ret.value.conflicts_resolved < ret.value.conflicts_detected

-----------------------------------------------------------------------------
(* C2: in every state of a run cycles_completed <= max_cycles, and no
   resolution attempt is made with a cycle number above max_cycles. *)
C2_CyclesWithinMax ==
    runs > 0 =>
        /\ cycles_completed <= config.max_cycles
        /\ pc = "resolve" => cycle <= config.max_cycles
        /\ \A k \in EventsOf(audit_trail, "resolution_attempt") :
               audit_trail[k].details.cycle <= config.max_cycles

-----------------------------------------------------------------------------
(* C3: the frequency set by _adjust_frequency, in current_frequency and in
   the frequency_adjustment event, lies in [base_frequency, max_frequency]. *)
FrequencyInBounds(f) ==
    /\ RLe(RInt(config.base_frequency), f)
    /\ RLe(f, RInt(config.max_frequency))

C3_FrequencyWithinBounds ==
    /\ pc = "resolve" => FrequencyInBounds(current_frequency)
    /\ \A k \in EventsOf(audit_trail, "frequency_adjustment") :
           FrequencyInBounds(audit_trail[k].details.new_frequency)

-----------------------------------------------------------------------------
(* C4: conflicts_detected is fixed by the target: 4 for "system", 5 for
   "repository", 3 for any other label, the sum of the target's batch sizes;
   the generated ids are distinct, so the merged dict keeps every record. *)
ExpectedDetected(t) ==
    IF t = "system" THEN 4 ELSE IF t = "repository" THEN 5 ELSE 3

RECURSIVE SumOfBatches(_)
SumOfBatches(batches) ==
    IF batches = <<>> THEN 0 ELSE Head(batches)[2] + SumOfBatches(Tail(batches))

C4_DetectedByTarget ==
    /\ pc \notin {"idle", "scan"} =>
           /\ conflicts_detected = ExpectedDetected(target)
           /\ conflicts_detected = SumOfBatches(SourceBatches(target))
           /\ Len(conflicts) = conflicts_detected
           /\ Cardinality(Keys(conflicts)) = conflicts_detected
    /\ ret.op = "run" =>
           ret.value.conflicts_detected = ExpectedDetected(ret.value.target)

\* a "repository" run returned 5, two batches merged
C4_Witness ==
    /\ RunReturned
    /\ ret.value.target = "repository"
    /\ ret.value.conflicts_detected = 5

-----------------------------------------------------------------------------
(* C5: when a cycle c >= 10 ends with unresolved/detected <= the threshold
   the loop ends there: no later cycle adjusts the frequency or attempts a
   resolution.  Before cycle 10 the loop ends early only with nothing left. *)
RatioWithinThreshold ==
    RLe(Rat(Len(remaining_conflicts), conflicts_detected),
        config.convergence_threshold)

\* successful attempts recorded for cycles up to c
ResolvedThrough(trail, c) ==
    Cardinality({k \in EventsOf(trail, "resolution_attempt") :
                    trail[k].details.success /\ trail[k].details.cycle <= c})

C5_ConvergenceLaw ==
    /\ (pc \in {"loop", "resolve"} /\ cycle > MinConvergenceCycle) =>
           ~RatioWithinThreshold
    /\ \A k \in CycleEvents(audit_trail) :
           LET c == audit_trail[k].details.cycle
           IN  c > MinConvergenceCycle =>
                   ~RLe(Rat(conflicts_detected - ResolvedThrough(audit_trail, c - 1),
                            conflicts_detected),
                        config.convergence_threshold)
    /\ (pc = "after_loop" /\ cycle <= config.max_cycles
            /\ cycle < MinConvergenceCycle) =>
           remaining_conflicts = <<>>

\* the loop ended at a cycle >= 10 by the threshold rule, conflicts remaining
\* and cycles to spare
C5_Witness ==
    /\ pc = "after_loop"
    /\ cycle >= MinConvergenceCycle
    /\ cycle < config.max_cycles
    /\ remaining_conflicts # <<>>
    /\ RLt(config.convergence_threshold, RInt(1))

-----------------------------------------------------------------------------
(* C6, as claimed (here for the default configuration): a run that detects
   nothing returns with conflicts_resolved = 0, cycles_completed = 0 and an
   audit log of exactly two events, engine_start then engine_stop. *)
EmptyRunReturned == RunReturned /\ ret.value.conflicts_detected = 0

C6_EmptyRunTwoEvents ==
    (EmptyRunReturned /\ config = DefaultCfg) =>
        /\ ret.value.conflicts_resolved = 0
        /\ ret.value.cycles_completed = 0
        /\ EventTypes(audit_trail) = <<"engine_start", "engine_stop">>

(* C6, amended: a run that detects nothing goes from detection straight to
   finalization, never entering the resolution loop, and returns with
   conflicts_resolved = 0, cycles_completed = 0 and, when the audit trail is
   enabled, an audit log of exactly three events: engine_start, scan_complete,
   engine_stop. *)
C6_EmptyRunThreeEvents ==
    /\ pc \in {"loop", "resolve", "after_loop"} => conflicts_detected > 0
    /\ (pc \in {"finalize", "results"} /\ conflicts_detected = 0) =>
           /\ conflicts_resolved = 0
           /\ cycles_completed = 0
           /\ CycleEvents(audit_trail) = {}
    /\ EmptyRunReturned =>
           /\ ret.value.conflicts_resolved = 0
           /\ ret.value.cycles_completed = 0
           /\ EventTypes(audit_trail) =
                  IF config.enable_audit_trail
                  THEN <<"engine_start", "scan_complete", "engine_stop">>
                  ELSE <<>>

\* a run on the empty target returned, audit trail enabled
C6_Witness == EmptyRunReturned /\ config.enable_audit_trail

-----------------------------------------------------------------------------
(* C7: export_audit_trail raises ValueError exactly when no run has been made
   or the audit trail is disabled; a disabled trail stays empty; an export
   that fails changes no engine state; after a completed run with the trail
   enabled the export goes through. *)
ExportContract ==
    /\ ~config.enable_audit_trail => audit_trail = <<>>
    /\ ret.op = "export" =>
           (ret.error = "ValueError" <=> (~config.enable_audit_trail \/ runs = 0))
    /\ (pc = "idle" /\ runs > 0 /\ config.enable_audit_trail) =>
           audit_trail # <<>>

C7_ExportPrecondition ==
    /\ ExportContract
    /\ [][/\ ExportContract'
          /\ (ret'.op = "export" /\ ret' # ret) => UNCHANGED <<engine, pc, runs>>
         ]_vars

\* an export failed after two runs, on an engine with the trail disabled
C7_Witness ==
    /\ ret.op = "export"
    /\ ret.error = "ValueError"
    /\ runs = 2

-----------------------------------------------------------------------------
(* C8: an engine with base_frequency > max_frequency, max_cycles <= 0 or a
   convergence_threshold outside [0, 1] is rejected at construction, so no
   run ever starts on one. *)
ValidConfig(cfg) ==
    /\ cfg.base_frequency <= cfg.max_frequency
    /\ cfg.max_cycles > 0
    /\ RLe(RInt(0), cfg.convergence_threshold)
    /\ RLe(cfg.convergence_threshold, RInt(1))

C8_InvalidConfigNeverRuns ==
    ~ValidConfig(config) => (runs = 0 /\ execution_start_time = None)

-----------------------------------------------------------------------------
(* C9: a run goes Idle -> Detecting -> (Empty | Resolving) -> Finalized and
   is finalized exactly once: _finalize_execution runs once per call, and
   with the audit trail enabled the log of a run starts with its only
   engine_start, holds no engine_stop before finalization and exactly one
   after it, as its last event; nothing is recorded or adjusted afterwards. *)
Transitions ==
    {<<"idle", "scan">>, <<"scan", "detected">>, <<"detected", "finalize">>,
     <<"detected", "loop">>, <<"loop", "resolve">>, <<"loop", "after_loop">>,
     <<"resolve", "loop">>, <<"resolve", "after_loop">>,
     <<"after_loop", "finalize">>, <<"finalize", "results">>,
     <<"results", "idle">>}

Finalized == runs > 0 /\ pc \in {"results", "idle"}

RunShape ==
    /\ clock = 2 * runs + (IF pc \in {"results", "idle"} THEN 1 ELSE 0)
    /\ (runs > 0 /\ config.enable_audit_trail) =>
           /\ audit_trail # <<>>
           /\ EventsOf(audit_trail, "engine_start") = {1}
           /\ EventsOf(audit_trail, "engine_stop") =
                  IF Finalized THEN {Len(audit_trail)} ELSE {}

-----------------------------------------------------------------------------
(* C10: when a run starts, every piece of engine state is back at its value
   after construction: the counters, the tally, the audit log (but for the
   engine_start just recorded), the current frequency and the end time. *)
C10_FullReset ==
    pc = "scan" =>
        /\ cycles_completed = 0
        /\ conflicts_detected = 0
        /\ conflicts_resolved = 0
        /\ resolution_strategies_applied = NoTally
        /\ Len(audit_trail) <= 1
        /\ current_frequency = RInt(config.base_frequency)
        /\ execution_end_time = None

-----------------------------------------------------------------------------
(* C11: every run terminates.  Whatever the attempts give, a run that has
   started reaches Finalized; no cycle numbered above max_cycles is ever
   executed, each cycle number is executed once, so at most max_cycles cycles
   run (none when max_cycles is not positive), also when conflicts are left
   unresolved at the end. *)
ExecutedCycles(trail) == Cardinality(EventsOf(trail, "frequency_adjustment"))

CyclesBounded ==
    /\ pc = "resolve" => (1 <= cycle /\ cycle <= config.max_cycles)
    /\ \A k \in CycleEvents(audit_trail) :
           /\ 1 <= audit_trail[k].details.cycle
           /\ audit_trail[k].details.cycle <= config.max_cycles
    /\ \A j, k \in EventsOf(audit_trail, "frequency_adjustment") :
           j < k => audit_trail[j].details.cycle < audit_trail[k].details.cycle
    /\ ExecutedCycles(audit_trail) <=
           (IF config.max_cycles > 0 THEN config.max_cycles ELSE 0)

-----------------------------------------------------------------------------
(* C12: determinism.  Two engines with identical parameters, the same target
   and the same sequence of success draws record the same audit events, so
   the strategy of every resolution attempt is fixed by the parameters, the
   target and the draws alone: it is the strategy that the reference engine
   (hash seed 0, scanning at its first clock reading) picks for the record
   of that type and index in that cycle. *)
FirstScanTime == 2

ReferenceStrategy(conflict_type, i, c) ==
    LET strategies == strategy_map[conflict_type]
        id == ConflictId(conflict_type, i, FirstScanTime)
    IN  strategies[((c + SeededHash(0, id)) % Len(strategies)) + 1]

C12_Deterministic ==
    \A k \in EventsOf(audit_trail, "resolution_attempt") :
        LET d == audit_trail[k].details
        IN  d.strategy = ReferenceStrategy(d.conflict_type, d.conflict_id[2], d.cycle)

-----------------------------------------------------------------------------
(* C13: a record's resolved flag starts false, turns true at most once, on a
   successful attempt, and never turns false again; a resolved record is not
   attempted again, in its cycle or in later ones, and conflicts_resolved is
   incremented exactly once for it. *)
ResolvedRecords == {k \in 1..Len(conflicts) : conflicts[k].resolved}

SuccessesOf(trail, id) ==
    {k \in EventsOf(trail, "resolution_attempt") :
        trail[k].details.conflict_id = id /\ trail[k].details.success}

ResolvedOnce ==
    /\ pc = "detected" =>
           \A k \in 1..Len(conflicts) :
               ~conflicts[k].resolved /\ conflicts[k].resolution_attempts = 0
    /\ pc # "idle" => conflicts_resolved = Cardinality(ResolvedRecords)
    /\ pc = "loop" =>
           \A k \in ResolvedRecords :
               \A j \in 1..Len(remaining_conflicts) :
                   remaining_conflicts[j] # conflicts[k].id
    /\ config.enable_audit_trail =>
           \A k \in 1..Len(conflicts) :
               /\ Cardinality(SuccessesOf(audit_trail, conflicts[k].id)) =
                      (IF conflicts[k].resolved THEN 1 ELSE 0)
               /\ \A e \in SuccessesOf(audit_trail, conflicts[k].id) :
                      \A later \in EventsOf(audit_trail, "resolution_attempt") :
                          later > e =>
                              audit_trail[later].details.conflict_id #
                                  conflicts[k].id

C13_ResolvedIsFinal ==
    /\ ResolvedOnce
    /\ [][/\ ResolvedOnce'
          /\ (pc # "results" /\ conflicts # <<>>) =>
                 /\ Len(conflicts') = Len(conflicts)
                 /\ \A k \in 1..Len(conflicts) :
                        /\ conflicts'[k].id = conflicts[k].id
                        /\ conflicts[k].resolved => conflicts'[k] = conflicts[k]
                        /\ (~conflicts[k].resolved /\ conflicts'[k].resolved) =>
                               /\ conflicts_resolved' = conflicts_resolved + 1
                               /\ conflicts'[k].resolution_attempts =
                                      conflicts[k].resolution_attempts + 1
         ]_vars

\* in cycle 2, after a record was resolved in cycle 1, another record has
\* just been attempted without success
C13_Witness ==
    /\ pc = "resolve"
    /\ cycle = 2
    /\ pos > 1
    /\ \E k \in ResolvedRecords : conflicts[k].resolution_attempts = 1
    /\ \E k \in 1..Len(conflicts) :
           ~conflicts[k].resolved /\ conflicts[k].resolution_attempts = 2

-----------------------------------------------------------------------------
(* C14: resolution_attempts goes up by exactly 1 per attempt, successful or
   not, and every unresolved record is attempted exactly once per executed
   cycle.  So at the end of a run a record resolved in cycle c has c attempts,
   an unresolved record has as many attempts as cycles were executed, and the
   resolution_attempt events are as many as the attempts of all records. *)
RECURSIVE SumOfAttempts(_)
SumOfAttempts(d) ==
    IF d = <<>> THEN 0 ELSE Head(d).resolution_attempts + SumOfAttempts(Tail(d))

\* the cycles executed so far: the current one is not if the range was exhausted
CyclesExecuted == IF LoopExhausted(cycle) THEN cycle - 1 ELSE cycle

RunEnded == pc \in {"after_loop", "finalize", "results"} /\ conflicts_detected > 0

AttemptsPerCycle ==
    /\ pc = "loop" =>
           \A j \in 1..Len(remaining_conflicts) :
               conflicts[IndexOf(conflicts, remaining_conflicts[j])]
                   .resolution_attempts = cycle - 1
    /\ pc = "resolve" =>
           \A j \in 1..Len(remaining_conflicts) :
               conflicts[IndexOf(conflicts, remaining_conflicts[j])]
                   .resolution_attempts = (IF j < pos THEN cycle ELSE cycle - 1)
    /\ RunEnded =>
           \A k \in 1..Len(conflicts) :
               ~conflicts[k].resolved =>
                   conflicts[k].resolution_attempts = CyclesExecuted
    /\ (RunEnded /\ config.enable_audit_trail) =>
           CyclesExecuted = ExecutedCycles(audit_trail)
    /\ (pc # "idle" /\ config.enable_audit_trail) =>
           /\ Cardinality(EventsOf(audit_trail, "resolution_attempt")) =
                  SumOfAttempts(conflicts)
           /\ \A k \in 1..Len(conflicts) :
                  \A e \in SuccessesOf(audit_trail, conflicts[k].id) :
                      conflicts[k].resolution_attempts = audit_trail[e].details.cycle

C14_AttemptsCounted ==
    /\ AttemptsPerCycle
    /\ [][/\ AttemptsPerCycle'
          /\ (pc = "resolve" /\ pc' = "resolve") =>
                 \A k \in 1..Len(conflicts) :
                     conflicts'[k].resolution_attempts =
                         conflicts[k].resolution_attempts +
                             (IF conflicts[k].id = remaining_conflicts[pos]
                              THEN 1 ELSE 0)
          /\ (pc # "resolve" /\ pc # "results" /\ conflicts # <<>>) =>
                 conflicts' = conflicts
          /\ \A k \in 1..Len(conflicts) :
                 (pc # "results" /\ ~conflicts[k].resolved /\ conflicts'[k].resolved)
                     => conflicts'[k].resolution_attempts = cycle
         ]_vars

\* a run ended after two cycles with a record resolved in cycle 1, a record
\* resolved in cycle 2 and a record never resolved
C14_Witness ==
    /\ pc = "results"
    /\ config.enable_audit_trail
    /\ CyclesExecuted = 2
    /\ \E k \in ResolvedRecords : conflicts[k].resolution_attempts = 1
    /\ \E k \in ResolvedRecords : conflicts[k].resolution_attempts = 2
    /\ \E k \in 1..Len(conflicts) :
           ~conflicts[k].resolved /\ conflicts[k].resolution_attempts = 2

-----------------------------------------------------------------------------
(* C15: within a run the audit log only grows at its end: the log before a
   step is a prefix of the log after it, so no event is modified, reordered
   or removed.  scan_complete precedes every cycle event, the
   frequency_adjustment of a cycle precedes every resolution_attempt of that
   cycle, and the cycle numbers of the events never decrease. *)
IsPrefix(s, t) == Len(s) <= Len(t) /\ SubSeq(t, 1, Len(s)) = s

AuditOrdered ==
    /\ \A k \in CycleEvents(audit_trail) :
           \E j \in EventsOf(audit_trail, "scan_complete") : j < k
    /\ \A k \in EventsOf(audit_trail, "resolution_attempt") :
           \E j \in EventsOf(audit_trail, "frequency_adjustment") :
               j < k /\ audit_trail[j].details.cycle = audit_trail[k].details.cycle
    /\ \A j, k \in CycleEvents(audit_trail) :
           j < k => audit_trail[j].details.cycle <= audit_trail[k].details.cycle
    /\ \A j \in EventsOf(audit_trail, "resolution_attempt") :
           \A k \in EventsOf(audit_trail, "frequency_adjustment") :
               j < k => audit_trail[j].details.cycle < audit_trail[k].details.cycle

\* the event at the end of the log is in order with all those before it
LastEventOrdered(trail) ==
    LET k == Len(trail)
        earlier == CycleEvents(trail) \ {k}
    IN  /\ k \in CycleEvents(trail) =>
               /\ \E j \in EventsOf(trail, "scan_complete") : j < k
               /\ \A j \in earlier : trail[j].details.cycle <= trail[k].details.cycle
        /\ trail[k].event_type = "resolution_attempt" =>
               \E j \in EventsOf(trail, "frequency_adjustment") :
                   j < k /\ trail[j].details.cycle = trail[k].details.cycle
        /\ trail[k].event_type = "frequency_adjustment" =>
               \A j \in earlier : trail[j].details.cycle < trail[k].details.cycle

C15_AuditAppendOnly ==
    [][/\ pc # "idle" =>
              /\ IsPrefix(audit_trail, audit_trail')
              /\ Len(audit_trail') <= Len(audit_trail) + 1
       /\ (pc = "idle" /\ pc' = "idle") => audit_trail' = audit_trail
       /\ Len(audit_trail') > Len(audit_trail) => LastEventOrdered(audit_trail')
       /\ pc' = "after_loop" => AuditOrdered'
      ]_vars

\* the second cycle of a run is under way, with attempts of both cycles logged
C15_Witness ==
    /\ pc = "resolve"
    /\ cycle = 2
    /\ \E j, k \in EventsOf(audit_trail, "resolution_attempt") :
           audit_trail[j].details.cycle = 1 /\ audit_trail[k].details.cycle = 2
    /\ Cardinality(EventsOf(audit_trail, "frequency_adjustment")) = 2

-----------------------------------------------------------------------------
(* C16: the strategy applied to a record in cycle c is the entry at index
   (c + hash(id)) mod 4 of the strategy list of the record's own category.
   It is one of that category's 4 strategies, it is fixed by the cycle and
   the id, and for a record that stays unresolved it moves one position
   forward, cyclically, from each cycle to the next, so that 4 consecutive
   cycles try the 4 strategies once each. *)
StrategyCount == 4

AttemptsOn(trail, id) ==
    {k \in EventsOf(trail, "resolution_attempt") : trail[k].details.conflict_id = id}

PositionOfAttempt(trail, k) ==
    PositionIn(strategy_map[trail[k].details.conflict_type],
               trail[k].details.strategy, 1)

C16_StrategyRotation ==
    /\ \A t \in ConflictTypes :
           /\ Len(strategy_map[t]) = StrategyCount
           /\ Cardinality({strategy_map[t][k] : k \in 1..StrategyCount}) =
                  StrategyCount
    /\ \A k \in EventsOf(audit_trail, "resolution_attempt") :
           LET d == audit_trail[k].details
           IN  /\ d.conflict_type = d.conflict_id[1]
               /\ PositionOfAttempt(audit_trail, k) =
                      ((d.cycle + Hash(d.conflict_id)) % StrategyCount) + 1
    \* the attempts of the whole run, once its loop has ended
    /\ pc = "after_loop" =>
           \A k \in EventsOf(audit_trail, "resolution_attempt") :
               \A j \in AttemptsOn(audit_trail, audit_trail[k].details.conflict_id) :
                   LET d == audit_trail[k].details
                       e == audit_trail[j].details
                   IN  /\ e.cycle = d.cycle => e.strategy = d.strategy
                       /\ e.cycle = d.cycle + 1 =>
                              PositionOfAttempt(audit_trail, j) =
                                  (PositionOfAttempt(audit_trail, k)
                                       % StrategyCount) + 1
                       /\ (e.cycle > d.cycle /\ e.cycle < d.cycle + StrategyCount)
                              => e.strategy # d.strategy

\* a record has been attempted in cycles 1 to 5, and its category's four
\* strategies have all been tried
C16_Witness ==
    \E k \in EventsOf(audit_trail, "resolution_attempt") :
        /\ audit_trail[k].details.cycle = StrategyCount + 1
        /\ {audit_trail[j].details.strategy :
                j \in AttemptsOn(audit_trail, audit_trail[k].details.conflict_id)}
               = {strategy_map[audit_trail[k].details.conflict_type][i] :
                      i \in 1..StrategyCount}

-----------------------------------------------------------------------------
(* C17: the success probability recorded for an attempt is
   min(0.3 + cycle * 0.1, 0.9) * effectiveness, the effectiveness being
   0.9 - 0.1 * (position of the strategy in its category's list, from 0) and
   0.5 for a strategy outside the list.  For a fixed strategy it does not
   decrease with the cycle, it is constant from cycle 6 on, and it never
   exceeds 0.81. *)
AllStrategies == UNION {{strategy_map[t][k] : k \in 1..Len(strategy_map[t])} :
                           t \in ConflictTypes}

\* the claimed value in hundredths: min(3 + c, 9) tenths times the
\* effectiveness, 9 - position tenths, or 5 tenths outside the list
ExpectedHundredths(conflict_type, strategy, c) ==
    LET position == PositionIn(strategy_map[conflict_type], strategy, 1) - 1
        tenths == IF 3 + c <= 9 THEN 3 + c ELSE 9
    IN  IF position >= 0 THEN tenths * (9 - position) ELSE tenths * 5

IsHundredths(p, h) == p.n * 100 = h * p.d

ProbabilityLaw ==
    \A t \in ConflictTypes : \A st \in AllStrategies : \A c \in 1..(LongCycles + 1) :
        /\ IsHundredths(SuccessProbability(t, st, c), ExpectedHundredths(t, st, c))
        /\ RLe(SuccessProbability(t, st, c), SuccessProbability(t, st, c + 1))
        /\ c >= 6 =>
               SuccessProbability(t, st, c + 1) = SuccessProbability(t, st, c)
        /\ RLe(SuccessProbability(t, st, c), Rat(81, 100))
        /\ st \notin {strategy_map[t][k] : k \in 1..Len(strategy_map[t])} =>
               SuccessProbability(t, st, c) =
                   RMul(Rat(5, 10), RMin(Rat(3 + c, 10), Rat(9, 10)))

C17_SuccessProbability ==
    /\ pc = "detected" => ProbabilityLaw
    /\ \A k \in EventsOf(audit_trail, "resolution_attempt") :
           LET d == audit_trail[k].details
           IN  /\ IsHundredths(d.success_probability,
                               ExpectedHundredths(d.conflict_type, d.strategy,
                                                  d.cycle))
               /\ d.success_probability.n * 100 <=
                      81 * d.success_probability.d

\* a strategy was tried at 0.72 in cycle 5 and again at the maximum, 0.81,
\* in cycle 9
C17_Witness ==
    \E j, k \in EventsOf(audit_trail, "resolution_attempt") :
        /\ audit_trail[j].details.strategy = audit_trail[k].details.strategy
        /\ audit_trail[j].details.cycle = 5
        /\ audit_trail[k].details.cycle = 9
        /\ audit_trail[j].details.success_probability = Rat(72, 100)
        /\ audit_trail[k].details.success_probability = Rat(81, 100)

-----------------------------------------------------------------------------
(* C18, as claimed (here for the valid configurations): in every cycle the
   frequency is base + (max - base) * (0.2 + 0.4 * cycle_progress
   + 0.4 * resolution_progress), with cycle_progress = cycle / max_cycles and
   resolution_progress = (detected - unresolved at the start of the cycle)
   / detected. *)
Blend(cycle_progress, resolution_progress) ==
    RAdd(RInt(config.base_frequency),
         RMul(RInt(config.max_frequency - config.base_frequency),
              RAdd(Rat(2, 10),
                   RAdd(RMul(Rat(4, 10), cycle_progress),
                        RMul(Rat(4, 10), resolution_progress)))))

\* resolution progress at the start of cycle c, read from the log
ProgressBefore(trail, c) ==
    Rat(ResolvedThrough(trail, c - 1), conflicts_detected)

C18_FrequencyBlend ==
    ValidConfig(config) =>
        /\ pc = "resolve" =>
               current_frequency =
                   Blend(Rat(cycle, config.max_cycles),
                         Rat(conflicts_detected - Len(remaining_conflicts),
                             conflicts_detected))
        /\ \A k \in EventsOf(audit_trail, "frequency_adjustment") :
               LET c == audit_trail[k].details.cycle
               IN  audit_trail[k].details.new_frequency =
                       Blend(Rat(c, config.max_cycles), ProgressBefore(audit_trail, c))

(* C18, amended: the same blend with cycle_progress = min(cycle / max_cycles,
   0.8), the result clamped into [base_frequency, max_frequency] (the clamp
   changes nothing when base_frequency <= max_frequency), recomputed at the
   start of every executed cycle. *)
CappedBlend(c, resolution_progress) ==
    RMax(RInt(config.base_frequency),
         RMin(Blend(RMin(Rat(c, config.max_cycles), Rat(8, 10)),
                    resolution_progress),
              RInt(config.max_frequency)))

FrequencyAdjustments(trail) == EventsOf(trail, "frequency_adjustment")

C18_FrequencyCappedBlend ==
    /\ pc = "resolve" =>
           /\ current_frequency =
                  CappedBlend(cycle,
                              Rat(conflicts_detected - Len(remaining_conflicts),
                                  conflicts_detected))
           /\ config.enable_audit_trail =>
                  \E k \in FrequencyAdjustments(audit_trail) :
                      /\ audit_trail[k].details.cycle = cycle
                      /\ audit_trail[k].details.new_frequency = current_frequency
    \* the adjustments of the whole run, once its loop has ended
    /\ pc = "after_loop" =>
           /\ \A k \in FrequencyAdjustments(audit_trail) :
                  LET c == audit_trail[k].details.cycle
                  IN  audit_trail[k].details.new_frequency =
                          CappedBlend(c, ProgressBefore(audit_trail, c))
           /\ config.enable_audit_trail =>
                  {audit_trail[k].details.cycle :
                       k \in FrequencyAdjustments(audit_trail)} = 1..CyclesExecuted

\* a valid engine is in a cycle past 80% of max_cycles, with a conflict
\* resolved before
C18_Witness ==
    /\ pc = "resolve"
    /\ ValidConfig(config)
    /\ config.enable_audit_trail
    /\ RLt(Rat(8, 10), Rat(cycle, config.max_cycles))
    /\ Len(remaining_conflicts) < conflicts_detected

-----------------------------------------------------------------------------
(* C19: the strategy tally counts successful applications only.  The count
   of a (category, strategy) pair goes up by one exactly when an attempt with
   that strategy on a record of that category succeeds; every tallied
   strategy is in its category's list; and in every state the counts add up
   to conflicts_resolved. *)
RECURSIVE SumOver(_, _)
SumOver(f, S) ==
    IF S = {} THEN 0
    ELSE LET x == CHOOSE y \in S : TRUE
         IN  f[x] + SumOver(f, S \ {x})

CountOf(tally, key) == IF key \in DOMAIN tally THEN tally[key] ELSE 0

SuccessesWith(trail, key) ==
    Cardinality({k \in EventsOf(trail, "resolution_attempt") :
                    /\ trail[k].details.success
                    /\ trail[k].details.conflict_type = key[1]
                    /\ trail[k].details.strategy = key[2]})

TallyKeys == ConflictTypes \X AllStrategies

TallyConsistent ==
    /\ DOMAIN resolution_strategies_applied \subseteq TallyKeys
    /\ \A key \in DOMAIN resolution_strategies_applied :
           /\ PositionIn(strategy_map[key[1]], key[2], 1) > 0
           /\ resolution_strategies_applied[key] >= 1
    /\ SumOver(resolution_strategies_applied,
               DOMAIN resolution_strategies_applied) = conflicts_resolved
    /\ config.enable_audit_trail =>
           \A key \in DOMAIN resolution_strategies_applied :
               resolution_strategies_applied[key] = SuccessesWith(audit_trail, key)

C19_TallyCountsSuccesses ==
    /\ TallyConsistent
    /\ [][/\ TallyConsistent'
          /\ (pc = "resolve" /\ pc' = "resolve") =>
                 LET id == remaining_conflicts[pos]
                     k == IndexOf(conflicts, id)
                 IN  IF conflicts'[k].resolved
                     THEN \E st \in AllStrategies :
                            /\ PositionIn(strategy_map[conflicts[k].type], st, 1) =
                                   StrategyIndex(cycle, id, StrategyCount) + 1
                            /\ \A key \in TallyKeys :
                                   CountOf(resolution_strategies_applied', key) =
                                       CountOf(resolution_strategies_applied, key) +
                                           (IF key = <<conflicts[k].type, st>>
                                            THEN 1 ELSE 0)
                     ELSE resolution_strategies_applied' =
                              resolution_strategies_applied
          /\ (pc # "resolve" /\ pc # "idle") =>
                 resolution_strategies_applied' = resolution_strategies_applied
         ]_vars

\* a strategy has succeeded twice on its category and another once
C19_Witness ==
    /\ config.enable_audit_trail
    /\ conflicts_resolved >= 3
    /\ \E a, b \in DOMAIN resolution_strategies_applied :
           /\ a # b
           /\ resolution_strategies_applied[a] = 2
           /\ resolution_strategies_applied[b] = 1
    /\ \E k \in EventsOf(audit_trail, "resolution_attempt") :
           ~audit_trail[k].details.success

-----------------------------------------------------------------------------
(* C20 (here for the valid configurations): the cycles_completed of the
   result, of the engine_stop event and of the engine is the number of
   resolution cycles the run executed, that is the number of its
   frequency_adjustment events: c when the run converges in cycle c,
   max_cycles when the cycles are exhausted, 0 when nothing was detected. *)
StopEvent(trail) == trail[Len(trail)].details

C20_CyclesCompletedExecuted ==
    ValidConfig(config) =>
        /\ pc = "results" =>
               /\ cycles_completed =
                      (IF conflicts_detected = 0 THEN 0 ELSE CyclesExecuted)
               /\ config.enable_audit_trail =>
                      /\ cycles_completed = ExecutedCycles(audit_trail)
                      /\ StopEvent(audit_trail).cycles_completed =
                             ExecutedCycles(audit_trail)
        /\ (RunReturned /\ config.enable_audit_trail) =>
               ret.value.cycles_completed = ExecutedCycles(audit_trail)

-----------------------------------------------------------------------------
(* C21: a run that detected something returns resolution_rate =
   100 * resolved / detected and efficiency_multiplier =
   113.3 * resolved / detected, on the counters the engine ends with.  The
   rate lies in [0, 100], the multiplier in [0, 113.3], and each is at its
   maximum exactly when every detected conflict was resolved. *)
C21_RatesFromCounters ==
    (RunReturned /\ ret.value.conflicts_detected > 0) =>
        LET r == ret.value
        IN  /\ r.conflicts_detected = conflicts_detected
            /\ r.conflicts_resolved = conflicts_resolved
            /\ r.resolution_rate.n * r.conflicts_detected =
                   100 * r.conflicts_resolved * r.resolution_rate.d
            /\ r.efficiency_multiplier.n * 10 * r.conflicts_detected =
                   1133 * r.conflicts_resolved * r.efficiency_multiplier.d
            /\ RLe(RInt(0), r.resolution_rate)
            /\ RLe(r.resolution_rate, RInt(100))
            /\ RLe(RInt(0), r.efficiency_multiplier)
            /\ RLe(r.efficiency_multiplier, Rat(1133, 10))
            /\ r.resolution_rate = RInt(100) <=>
                   r.conflicts_resolved = r.conflicts_detected
            /\ r.efficiency_multiplier = Rat(1133, 10) <=>
                   r.conflicts_resolved = r.conflicts_detected

\* a run returned with some, not all, of its conflicts resolved
C21_Witness ==
    /\ RunReturned
    /\ ret.value.conflicts_resolved > 0
    /\ ret.value.conflicts_resolved < ret.value.conflicts_detected

-----------------------------------------------------------------------------
(* C22 (here for the valid configurations): get_oscillation_status reports
   execution_active = True in every state from the start of a run to its
   finalization and False before the first run and after finalization, in
   the first and in every later run of an engine; execution_time is None
   exactly when no run has ever started. *)
Running == pc \in {"scan", "detected", "loop", "resolve", "after_loop", "finalize"}

C22_ActiveWhileRunning ==
    ValidConfig(config) =>
        /\ GetOscillationStatus(clock).execution_active <=> Running
        /\ GetOscillationStatus(clock).execution_time = None <=> runs = 0

-----------------------------------------------------------------------------
(* Two callers of one shared engine instance.  The engine's fields are
   shared; each caller has its own position in detect_and_resolve_conflicts,
   its own locals and its own return value.  One caller executes while the
   other is suspended. *)

\* the locals of the executing caller, as the suspended one keeps them
CallerState ==
    [pc |-> pc, target |-> target, conflicts |-> conflicts,
     remaining_conflicts |-> remaining_conflicts, cycle |-> cycle,
     resolved_ids |-> resolved_ids, pos |-> pos, ret |-> ret]

IdleCaller ==
    [pc |-> "idle", target |-> "", conflicts |-> <<>>,
     remaining_conflicts |-> <<>>, cycle |-> 0, resolved_ids |-> <<>>,
     pos |-> 0, ret |-> NoReturn]

\* The executing caller is suspended and the other one resumes where it
\* stopped.  switches counts the switches that interrupt a call in progress:
\* a switch made between calls serializes the two callers.
Switch ==
    /\ suspended # None
    /\ IF pc = "idle"
       THEN switches' = switches
       ELSE switches < MaxSwitches /\ switches' = switches + 1
    /\ suspended' = Some(CallerState)
    /\ pc' = suspended[1].pc
    /\ target' = suspended[1].target
    /\ conflicts' = suspended[1].conflicts
    /\ remaining_conflicts' = suspended[1].remaining_conflicts
    /\ cycle' = suspended[1].cycle
    /\ resolved_ids' = suspended[1].resolved_ids
    /\ pos' = suspended[1].pos
    /\ ret' = suspended[1].ret
    /\ UNCHANGED <<agent, network, config, lookup, hashseed, clock, runs, engine>>

\* one engine with the default arguments, and two callers that have not
\* called it yet
InitShared ==
    /\ lookup = "source"
    /\ Constructed(DefaultCfg)
    /\ hashseed = 0
    /\ clock = 1
    /\ pc = "idle"
    /\ NoLocals
    /\ ret = NoReturn
    /\ runs = 0
    /\ suspended = Some(IdleCaller)
    /\ switches = 0
    /\ NoAgent
    /\ NoNetwork

NextShared == Next \/ Switch

SpecShared == InitShared /\ [][NextShared]_vars

-----------------------------------------------------------------------------
(* C23: non-reentrancy of detect_and_resolve_conflicts *)

\* the attempts recorded in the trail on records that are not in the batch d
ForeignAttempts(trail, d) ==
    {k \in EventsOf(trail, "resolution_attempt") :
        trail[k].details.conflict_id \notin Keys(d)}

\* what a call in progress, or just returned, sees when no other call has
\* touched the engine since it started: its own engine_start first and no
\* other, at most one engine_stop, attempts on its own batch only, and
\* counters that are its own
OwnRun ==
    /\ conflicts_resolved <= conflicts_detected
    /\ pc # "idle" =>
          /\ audit_trail[1].event_type = "engine_start"
          /\ audit_trail[1].details.target = target
          /\ Cardinality(EventsOf(audit_trail, "engine_start")) = 1
          /\ Cardinality(EventsOf(audit_trail, "engine_stop")) <= 1
          /\ ForeignAttempts(audit_trail, conflicts) = {}
          /\ pc # "scan" => conflicts_detected = Len(conflicts)
    /\ ret.op = "run" =>
          ret.value.conflicts_resolved <= ret.value.conflicts_detected

\* C23: as long as no call on a shared engine has been interrupted by the
\* other caller (the calls are serialized), every call sees a run of its own:
\* one engine_start and at most one engine_stop in the audit log, attempts on
\* its own batch only, conflicts_detected equal to the size of its batch and
\* conflicts_resolved not above conflicts_detected, in the engine and in the
\* returned results.  The races are reachable once a call is interrupted
\* (C23_Witness).
C23_SerializedCallsDoNotRace == switches = 0 => OwnRun

\* A call that was interrupted after its scan is about to return, after the
\* other caller's whole run: the other call's reset has erased its
\* engine_start and scan_complete events (the only engine_start left is the
\* other call's), the audit log holds two engine_stop events and attempts of
\* both runs, and conflicts_resolved, which the call returns, exceeds the
\* number of conflicts the call detected.
C23_Witness ==
    /\ switches > 0
    /\ pc = "results"
    /\ suspended # None /\ suspended[1].ret.op = "run"
    /\ Cardinality(EventsOf(audit_trail, "engine_start")) = 1
    /\ Cardinality(EventsOf(audit_trail, "scan_complete")) = 1
    /\ Cardinality(EventsOf(audit_trail, "engine_stop")) = 2
    /\ ForeignAttempts(audit_trail, conflicts) # {}
    /\ ForeignAttempts(audit_trail, conflicts) #
           EventsOf(audit_trail, "resolution_attempt")
    /\ GenerateResults(target).conflicts_resolved > Len(conflicts)
    /\ GenerateResults(target).conflicts_resolved >
           GenerateResults(target).conflicts_detected

-----------------------------------------------------------------------------
(* C24: the unresolved_conflicts warning *)

UnresolvedRecords == {k \in 1..Len(conflicts) : ~conflicts[k].resolved}

\* C24: on an engine that keeps an audit trail, no unresolved_conflicts event
\* is in the trail while the run is scanning or resolving; once the run is
\* finalized the trail holds such an event exactly when some detected record
\* is still unresolved, at most one of them, its count is
\* conflicts_detected - conflicts_resolved (the number of unresolved records),
\* and it is the event just before engine_stop, which is the last one.
C24_UnresolvedWarning ==
    config.enable_audit_trail =>
        LET warnings == EventsOf(audit_trail, "unresolved_conflicts")
            n == Len(audit_trail)
        IN  /\ pc \in {"scan", "detected", "loop", "resolve", "after_loop"} =>
                  warnings = {}
            /\ pc = "results" =>
                  /\ (warnings # {}) <=> (UnresolvedRecords # {})
                  /\ (warnings # {}) <=> (conflicts_resolved < conflicts_detected)
                  /\ Cardinality(warnings) <= 1
                  /\ audit_trail[n].event_type = "engine_stop"
                  /\ \A k \in warnings :
                        /\ audit_trail[k].details.count =
                               conflicts_detected - conflicts_resolved
                        /\ audit_trail[k].details.count =
                               Cardinality(UnresolvedRecords)
                        /\ k = n - 1

\* a finalized run of the default configuration that resolved some records
\* and not others, with the warning recorded just before engine_stop
C24_Witness ==
    /\ config = DefaultCfg
    /\ pc = "results"
    /\ conflicts_resolved > 0
    /\ conflicts_resolved < conflicts_detected
    /\ EventsOf(audit_trail, "unresolved_conflicts") = {Len(audit_trail) - 1}

-----------------------------------------------------------------------------
(* src/agents/oscillation_conflict_agent.py: resolve_conflicts_100x, the
   governance log and the agent manifest.

   The engine that resolve_conflicts_100x builds is a local of the call; of
   its run the agent sees the returned results, or an exception.  Every
   step that touches the file system can raise. *)

MaxExecutions == 2        \* calls of resolve_conflicts_100x
MaxManifestCalls == 12    \* direct calls of _update_agent_manifest
MaxResolved == 2          \* conflicts_resolved of a direct call: 1..MaxResolved

\* line 370: manifest["execution_history"][-10:]
HistoryLimit == 10

\* lines 71 and 153-219: what detect_and_resolve_conflicts returns for the
\* target: the size of the scanned batch and a number resolved within it
EngineResults(t) ==
    LET detected == Len(ScanForConflicts(t, FirstScanTime))
    IN  {[target |-> t, conflicts_detected |-> detected, conflicts_resolved |-> r,
          execution_id |-> 0, report_file |-> FALSE, audit_file |-> FALSE,
          manifest_file |-> FALSE] : r \in 0..detected}

\* lines 162-182: _initialize_governance_log
InitializeGovernanceLog(execution_id, t) ==
    [execution_id |-> execution_id,
     target |-> t,
     status |-> "in_progress",
     events |-> <<[type |-> "execution_start", details |-> [target |-> t]]>>]

\* lines 202-217: _finalize_governance_log, up to the save
FinalizeGovernanceLog(log, res, success) ==
    [log EXCEPT
        !.status = IF success THEN "completed" ELSE "failed",
        !.events = Append(@,
            [type |-> "execution_end",
             details |->
                 IF success
                 THEN [success |-> TRUE,
                       conflicts_detected |-> res.conflicts_detected,
                       conflicts_resolved |-> res.conflicts_resolved]
                 ELSE [success |-> FALSE, error |-> res.error]])]

\* lines 332-352: the manifest loaded from the file, or the default one
LoadManifest(m) ==
    IF m = None
    THEN [executions |-> 0, conflicts_resolved |-> 0,
          execution_history |-> <<>>, last_execution |-> None]
    ELSE m[1]

\* line 370: the last 10 entries, and the list left as it is
AllEntries(history) == history

LastEntries(history) ==
    IF Len(history) <= HistoryLimit THEN history
    ELSE SubSeq(history, Len(history) - HistoryLimit + 1, Len(history))

\* lines 355-370: _update_agent_manifest, up to the save
UpdateAgentManifest(m, res) ==
    LET old == LoadManifest(m)
        last_execution ==
            [execution_id |-> res.execution_id,
             target |-> res.target,
             conflicts_detected |-> res.conflicts_detected,
             conflicts_resolved |-> res.conflicts_resolved]
    IN  Some([executions |-> old.executions + 1,
              conflicts_resolved |->
                  old.conflicts_resolved + res.conflicts_resolved,
              last_execution |-> Some(last_execution),
              execution_history |->
                  LastEntries(Append(old.execution_history, last_execution))])

enginevars == <<config, lookup, hashseed, clock, engine, pc, locals, ret, runs,
                suspended, switches>>

Raised(e) == [op |-> "resolve", error |-> e, value |-> <<>>]

Returned(res) == [op |-> "resolve", error |-> "", value |-> res]

\* lines 53-67: the execution id, the engine, and the governance log
\* initialized and saved; a failing save is outside the try block
ResolveConflicts100x(t, generate_report, update_manifest) ==
    /\ agent_pc = "idle"
    /\ executions < MaxExecutions
    /\ executions' = executions + 1
    /\ request' = Some([target |-> t, generate_report |-> generate_report,
                        update_manifest |-> update_manifest])
    /\ results' = None
    /\ raised' = None
    /\ \E saved \in BOOLEAN :
          IF saved
          THEN /\ governance_log' = Some(InitializeGovernanceLog(executions', t))
               /\ ledger' = governance_log'
               /\ agent_pc' = "engine"
               /\ agent_ret' = NoReturn
          ELSE /\ governance_log' = None
               /\ ledger' = None
               /\ agent_pc' = "idle"
               /\ agent_ret' = Raised("save")
    /\ UNCHANGED <<manifest, manifest_calls>>
    /\ UNCHANGED <<enginevars, network>>

\* lines 71-78: the engine run, and the governance data added to its results
EngineRun ==
    /\ agent_pc = "engine"
    /\ \/ \E res \in EngineResults(request[1].target) :
             /\ results' = Some([res EXCEPT !.execution_id = executions])
             /\ agent_pc' = "report"
             /\ UNCHANGED raised
       \/ /\ raised' = Some("engine")
          /\ agent_pc' = "except"
          /\ UNCHANGED results
    /\ UNCHANGED <<request, governance_log, ledger, agent_ret, executions,
                   manifest, manifest_calls>>
    /\ UNCHANGED <<enginevars, network>>

\* lines 81-83: the report, if requested
GenerateReport ==
    /\ agent_pc = "report"
    /\ IF ~request[1].generate_report
       THEN /\ agent_pc' = "export"
            /\ UNCHANGED <<results, raised>>
       ELSE \/ /\ results' = Some([results[1] EXCEPT !.report_file = TRUE])
               /\ agent_pc' = "export"
               /\ UNCHANGED raised
            \/ /\ raised' = Some("report")
               /\ agent_pc' = "except"
               /\ UNCHANGED results
    /\ UNCHANGED <<request, governance_log, ledger, agent_ret, executions,
                   manifest, manifest_calls>>
    /\ UNCHANGED <<enginevars, network>>

\* lines 86-87: engine.export_audit_trail()
ExportAudit ==
    /\ agent_pc = "export"
    /\ \/ /\ results' = Some([results[1] EXCEPT !.audit_file = TRUE])
          /\ agent_pc' = "manifest"
          /\ UNCHANGED raised
       \/ /\ raised' = Some("export")
          /\ agent_pc' = "except"
          /\ UNCHANGED results
    /\ UNCHANGED <<request, governance_log, ledger, agent_ret, executions,
                   manifest, manifest_calls>>
    /\ UNCHANGED <<enginevars, network>>

\* lines 90-92: the manifest update, if requested; when it raises the file
\* is as it was
UpdateManifest ==
    /\ agent_pc = "manifest"
    /\ IF ~request[1].update_manifest
       THEN /\ agent_pc' = "finalize"
            /\ UNCHANGED <<results, raised, manifest, manifest_calls>>
       ELSE \/ /\ manifest' = UpdateAgentManifest(manifest, results[1])
               /\ manifest_calls' = Append(manifest_calls, results[1])
               /\ results' = Some([results[1] EXCEPT !.manifest_file = TRUE])
               /\ agent_pc' = "finalize"
               /\ UNCHANGED raised
            \/ /\ raised' = Some("manifest")
               /\ agent_pc' = "except"
               /\ UNCHANGED <<results, manifest, manifest_calls>>
    /\ UNCHANGED <<request, governance_log, ledger, agent_ret, executions>>
    /\ UNCHANGED <<enginevars, network>>

\* lines 95-99: _finalize_governance_log(governance_log, results,
\* success=True), inside the try block, and the return; the log is changed
\* before it is saved (lines 202-220)
FinalizeSuccess ==
    /\ agent_pc = "finalize"
    /\ governance_log' =
           Some(FinalizeGovernanceLog(governance_log[1], results[1], TRUE))
    /\ \/ /\ ledger' = governance_log'
          /\ agent_pc' = "idle"
          /\ agent_ret' = Returned(results[1])
          /\ UNCHANGED raised
       \/ /\ raised' = Some("save")
          /\ agent_pc' = "except"
          /\ UNCHANGED <<ledger, agent_ret>>
    /\ UNCHANGED <<request, results, executions, manifest, manifest_calls>>
    /\ UNCHANGED <<enginevars, network>>

\* lines 101-108: the except block: the log finalized as failed, then the
\* exception raised again; a failing save raises its own exception instead
HandleException ==
    /\ agent_pc = "except"
    /\ governance_log' =
           Some(FinalizeGovernanceLog(governance_log[1],
                                      [error |-> raised[1]], FALSE))
    /\ \/ /\ ledger' = governance_log'
          /\ agent_ret' = Raised(raised[1])
       \/ /\ agent_ret' = Raised("save")
          /\ UNCHANGED ledger
    /\ agent_pc' = "idle"
    /\ UNCHANGED <<request, results, raised, executions, manifest,
                   manifest_calls>>
    /\ UNCHANGED <<enginevars, network>>

EngineAtRest ==
    /\ lookup = "source"
    /\ Constructed(DefaultCfg)
    /\ hashseed = 0
    /\ clock = 1
    /\ pc = "idle"
    /\ NoLocals
    /\ ret = NoReturn
    /\ runs = 0
    /\ suspended = None
    /\ switches = 0

InitAgent == EngineAtRest /\ NoAgent /\ NoNetwork

NextAgent ==
    \/ \E t \in Targets, generate_report \in BOOLEAN, update_manifest \in BOOLEAN :
          ResolveConflicts100x(t, generate_report, update_manifest)
    \/ EngineRun
    \/ GenerateReport
    \/ ExportAudit
    \/ UpdateManifest
    \/ FinalizeSuccess
    \/ HandleException

SpecAgent == InitAgent /\ [][NextAgent]_vars

-----------------------------------------------------------------------------
(* C25: the governance log of resolve_conflicts_100x *)

EndEvents(log) ==
    {k \in 1..Len(log.events) : log.events[k].type = "execution_end"}

RequestedStepsDone ==
    /\ results # None
    /\ results[1].report_file = request[1].generate_report
    /\ results[1].audit_file
    /\ results[1].manifest_file = request[1].update_manifest

\* C25: the governance log of an execution is in_progress exactly as long as
\* it holds no execution_end event and it never holds more than one (it is
\* finalized once); it is in_progress while the steps of the execution run;
\* status completed is in the log only when every requested step has
\* succeeded, with an execution_end event that says so; and when the engine
\* run, the report, the audit export or the manifest update has raised and
\* the call has ended, the log is failed, its execution_end event is the last
\* one and carries the error, and the caller got an exception.
C25_GovernanceFinalizedOnce ==
    governance_log # None =>
        LET log == governance_log[1]
            ends == EndEvents(log)
        IN  /\ Cardinality(ends) <= 1
            /\ (log.status = "in_progress") <=> (ends = {})
            /\ agent_pc \in {"engine", "report", "export", "manifest", "finalize"} =>
                   log.status = "in_progress"
            /\ log.status = "completed" =>
                   /\ RequestedStepsDone
                   /\ \A k \in ends : log.events[k].details.success
            /\ (/\ agent_pc = "idle"
                /\ raised # None
                /\ raised[1] \in {"engine", "report", "export", "manifest"}) =>
                   /\ log.status = "failed"
                   /\ ends = {Len(log.events)}
                   /\ \A k \in ends : log.events[k].details = 
                          [success |-> FALSE, error |-> raised[1]]
                   /\ agent_ret.error # ""

-----------------------------------------------------------------------------
(* _update_agent_manifest called directly, any number of times *)

\* the results of the k-th direct call
ManifestInputs(k) ==
    {[target |-> "system", conflicts_detected |-> MaxResolved,
      conflicts_resolved |-> r, execution_id |-> k, report_file |-> FALSE,
      audit_file |-> FALSE, manifest_file |-> FALSE] : r \in 1..MaxResolved}

\* lines 329-382: one call of _update_agent_manifest that saves the manifest
UpdateAgentManifestCall ==
    /\ Len(manifest_calls) < MaxManifestCalls
    /\ \E res \in ManifestInputs(Len(manifest_calls) + 1) :
          /\ manifest' = UpdateAgentManifest(manifest, res)
          /\ manifest_calls' = Append(manifest_calls, res)
    /\ UNCHANGED <<agent_pc, request, governance_log, ledger, results, raised,
                   agent_ret, executions>>
    /\ UNCHANGED <<enginevars, network>>

SpecManifest == InitAgent /\ [][UpdateAgentManifestCall]_vars

-----------------------------------------------------------------------------
(* C26: the agent manifest *)

RECURSIVE SumResolved(_)
SumResolved(calls) ==
    IF calls = <<>> THEN 0
    ELSE Head(calls).conflicts_resolved + SumResolved(Tail(calls))

\* the manifest entry of a call
EntryOf(res) ==
    [execution_id |-> res.execution_id, target |-> res.target,
     conflicts_detected |-> res.conflicts_detected,
     conflicts_resolved |-> res.conflicts_resolved]

\* C26: there is no manifest before the first call; after n calls of
\* _update_agent_manifest the manifest's executions is n, its
\* conflicts_resolved is the sum of the conflicts_resolved of the n calls,
\* execution_history holds min(n, 10) entries, which are the entries of the
\* last min(n, 10) calls in call order, and last_execution is the last entry
\* of execution_history.
C26_ManifestAccounting ==
    LET n == Len(manifest_calls)
    IN  /\ (manifest = None) <=> (n = 0)
        /\ manifest # None =>
             LET m == manifest[1]
                 kept == Len(m.execution_history)
             IN  /\ m.executions = n
                 /\ m.conflicts_resolved = SumResolved(manifest_calls)
                 /\ kept <= 10
                 /\ kept = IF n <= 10 THEN n ELSE 10
                 /\ \A k \in 1..kept :
                       m.execution_history[k] = EntryOf(manifest_calls[n - kept + k])
                 /\ m.last_execution = Some(m.execution_history[kept])

\* twelve calls made: the entries of the first two have left the history
C26_Witness ==
    /\ Len(manifest_calls) = 12
    /\ manifest # None
    /\ Len(manifest[1].execution_history) = 10
    /\ manifest[1].execution_history[1].execution_id = 3
    /\ manifest[1].conflicts_resolved > manifest[1].executions

-----------------------------------------------------------------------------
(* C27: conservation of conflicts *)

IdsOf(d) == [k \in 1..Len(d) |-> d[k].id]

AtCycleBoundary == pc \in {"loop", "after_loop"}

Conserved ==
    /\ conflicts_resolved + Len(remaining_conflicts) = conflicts_detected
    /\ {remaining_conflicts[k] : k \in 1..Len(remaining_conflicts)} =
           {conflicts[k].id : k \in UnresolvedRecords}
    /\ Len(conflicts) = conflicts_detected

\* C27: whenever a run is between two cycles of the resolution phase (before
\* the first, after each one, and when the loop is left), conflicts_resolved
\* plus the size of the remaining dict is conflicts_detected, the remaining
\* dict holds exactly the ids of the records whose resolved flag is false,
\* and the batch holds conflicts_detected records; and from the scan to the
\* end of the run no step removes, adds or reorders a record of the batch.
C27_Conservation ==
    [][/\ AtCycleBoundary' => Conserved'
       /\ (pc \notin {"idle", "scan", "results"}) =>
              IdsOf(conflicts') = IdsOf(conflicts)]_vars

\* between the first and the second cycle, with some records resolved and
\* some not
C27_Witness ==
    /\ pc = "loop"
    /\ cycle = 2
    /\ conflicts_resolved > 0
    /\ Len(remaining_conflicts) > 0
    /\ conflicts_resolved + Len(remaining_conflicts) = conflicts_detected

-----------------------------------------------------------------------------
(* C28: the frequency over the cycles of a run *)

\* base_frequency + 20% of (max_frequency - base_frequency)
FrequencyFloor ==
    RAdd(RInt(config.base_frequency),
         RMul(Rat(2, 10), RInt(config.max_frequency - config.base_frequency)))

\* C28: on an engine with base_frequency <= max_frequency, once the loop of a
\* run has ended, of any two frequency_adjustment events of the run the later
\* one records a cycle factor, a resolution factor and a frequency that are
\* not below those of the earlier one, and every recorded frequency is at
\* least base + 20% of (max - base) and, when max > base, strictly below
\* max_frequency.
C28_FrequencyMonotone ==
    (config.base_frequency <= config.max_frequency /\ pc = "after_loop") =>
        LET adjustments == FrequencyAdjustments(audit_trail)
        IN  /\ \A j, k \in adjustments :
                  j < k =>
                     LET early == audit_trail[j].details
                         late == audit_trail[k].details
                     IN  /\ early.cycle < late.cycle
                         /\ RLe(early.cycle_factor, late.cycle_factor)
                         /\ RLe(early.resolution_factor, late.resolution_factor)
                         /\ RLe(early.new_frequency, late.new_frequency)
            /\ \A k \in adjustments :
                  LET f == audit_trail[k].details.new_frequency
                  IN  /\ RLe(FrequencyFloor, f)
                      /\ config.max_frequency > config.base_frequency =>
                             RLt(f, RInt(config.max_frequency))

\* a run whose loop has ended after two cycles at least, the second at a
\* higher frequency than the first
C28_Witness ==
    /\ config.base_frequency < config.max_frequency
    /\ pc = "after_loop"
    /\ \E j, k \in FrequencyAdjustments(audit_trail) :
          /\ j < k
          /\ RLt(audit_trail[j].details.new_frequency,
                 audit_trail[k].details.new_frequency)
          /\ RLt(audit_trail[j].details.resolution_factor,
                 audit_trail[k].details.resolution_factor)

-----------------------------------------------------------------------------
(* C29: convergence with the default arguments *)

\* C29: on an engine built with the default arguments (threshold 0.001, the
\* batches of the source's table), once a batch has been detected:
\* _check_convergence is true for no cycle and no positive number of
\* remaining conflicts; a run whose loop has ended after fewer than
\* max_cycles cycles has resolved every conflict; and a run whose loop has
\* ended with conflicts remaining has executed max_cycles cycles and has
\* cycles_completed = max_cycles, in the engine and in the results it
\* returns.
C29_DefaultConvergence ==
    (config \in DefaultConfigs /\ conflicts_detected > 0) =>
        /\ conflicts_detected \in 3..5
        /\ pc = "detected" =>
              \A c \in 1..config.max_cycles, r \in 1..conflicts_detected :
                  ~CheckConvergence(c, r)
        /\ (RunEnded /\ CyclesExecuted < config.max_cycles) =>
              /\ remaining_conflicts = <<>>
              /\ conflicts_resolved = conflicts_detected
        /\ (RunEnded /\ remaining_conflicts # <<>>) =>
              /\ CyclesExecuted = config.max_cycles
              /\ cycles_completed = config.max_cycles
              /\ pc = "results" =>
                     GenerateResults(target).cycles_completed = config.max_cycles

\* a run of LongCycles cycles, which passes cycle 10, about to return with a
\* conflict resolved and another one left
C29_Witness ==
    /\ config = DefaultLongCfg
    /\ pc = "results"
    /\ remaining_conflicts # <<>>
    /\ conflicts_resolved > 0
    /\ cycles_completed = LongCycles

-----------------------------------------------------------------------------
(* FlashSyncNetwork.flash_sync (src/scripts/flash_sync_demo.py) and
   FlashSyncNetwork.flash_sync_innovation
   (src/scripts/cross_repo_flash_sync_pow.py): the same breadth-first loop.

   Repositories are numbered 1..RepoCount.  connections[r] is the list
   Repository.connect_to has built for r: it holds no repository twice, and
   connect_to accepts any repository, r itself included. *)

RepoCount == 3

Repositories == 1..RepoCount

\* the lists without repetition over a set of repositories
RECURSIVE ListsOver(_)
ListsOver(S) ==
    {<<>>} \cup UNION {{<<r>> \o l : l \in ListsOver(S \ {r})} : r \in S}

InList(l, r) == \E k \in 1..Len(l) : l[k] = r

\* the loop that adds connections to the queue, and the same loop without
\* its test
RECURSIVE EnqueueAll(_, _, _)
EnqueueAll(queue, synced, conns) ==
    IF conns = <<>> THEN queue
    ELSE EnqueueAll(Append(queue, Head(conns)), synced, Tail(conns))

RECURSIVE Enqueue(_, _, _)
Enqueue(queue, synced, conns) ==
    IF conns = <<>> THEN queue
    ELSE Enqueue(IF ~InList(synced, Head(conns)) /\ ~InList(queue, Head(conns))
                 THEN Append(queue, Head(conns))
                 ELSE queue,
                 synced, Tail(conns))

\* a network with its connections made, and an innovation whose proof of
\* work verifies or not
InitSync ==
    /\ EngineAtRest
    /\ NoAgent
    /\ connections \in [Repositories -> ListsOver(Repositories)]
    /\ innovations = [r \in Repositories |-> 0]
    /\ verifies \in BOOLEAN
    /\ sync_pc = "idle"
    /\ origin_repo = 0
    /\ synced_repos = <<>>
    /\ sync_queue = <<>>

\* create_innovation: the innovation is added to its origin repository
CreateInnovation(o) ==
    /\ sync_pc = "idle"
    /\ origin_repo' = o
    /\ innovations' = [innovations EXCEPT ![o] = @ + 1]
    /\ sync_pc' = "created"
    /\ UNCHANGED <<connections, verifies, synced_repos, sync_queue>>
    /\ UNCHANGED <<enginevars, agent>>

\* flash_sync up to its loop: the origin is synced, its connections queued
FlashSync ==
    /\ sync_pc = "created"
    /\ synced_repos' = <<origin_repo>>
    /\ sync_queue' = connections[origin_repo]
    /\ sync_pc' = "loop"
    /\ UNCHANGED <<connections, innovations, verifies, origin_repo>>
    /\ UNCHANGED <<enginevars, agent>>

\* one pass of the while loop
SyncStep ==
    /\ sync_pc = "loop"
    /\ sync_queue # <<>>
    /\ LET current_repo == Head(sync_queue)
           rest == Tail(sync_queue)
       IN  IF InList(synced_repos, current_repo) \/ ~verifies
           THEN /\ sync_queue' = rest
                /\ UNCHANGED <<synced_repos, innovations>>
           ELSE /\ innovations' = [innovations EXCEPT ![current_repo] = @ + 1]
                /\ synced_repos' = Append(synced_repos, current_repo)
                /\ sync_queue' =
                       Enqueue(rest, synced_repos', connections[current_repo])
    /\ UNCHANGED <<connections, verifies, sync_pc, origin_repo>>
    /\ UNCHANGED <<enginevars, agent>>

\* the loop ends on the empty queue and the log is returned
SyncComplete ==
    /\ sync_pc = "loop"
    /\ sync_queue = <<>>
    /\ sync_pc' = "done"
    /\ UNCHANGED <<connections, innovations, verifies, origin_repo,
                   synced_repos, sync_queue>>
    /\ UNCHANGED <<enginevars, agent>>

NextSync ==
    \/ \E o \in Repositories : CreateInnovation(o)
    \/ FlashSync
    \/ SyncStep
    \/ SyncComplete

\* flash_sync is a loop of synchronous code: it goes on as long as it can
SpecSync == InitSync /\ [][NextSync]_vars /\ WF_vars(NextSync)

-----------------------------------------------------------------------------
(* C30: breadth-first propagation *)

NoRepetition(l) == \A j, k \in 1..Len(l) : j # k => l[j] # l[k]

ElementsOf(l) == {l[k] : k \in 1..Len(l)}

\* the repositories reachable from those of S along connections
RECURSIVE ReachableFrom(_)
ReachableFrom(S) ==
    LET T == S \cup UNION {ElementsOf(connections[r]) : r \in S}
    IN  IF T = S THEN S ELSE ReachableFrom(T)

SelfConnectedOrigin ==
    origin_repo \in Repositories /\ InList(connections[origin_repo], origin_repo)

SyncSafe ==
    /\ NoRepetition(sync_queue)
    /\ NoRepetition(synced_repos)
    /\ ElementsOf(sync_queue) \cap ElementsOf(synced_repos) \subseteq
           IF SelfConnectedOrigin THEN {origin_repo} ELSE {}
    /\ \A r \in Repositories : innovations[r] <= 1
    /\ sync_pc \in {"loop", "done"} =>
           \A r \in Repositories :
               innovations[r] = IF r \in ElementsOf(synced_repos) THEN 1 ELSE 0
    /\ (sync_pc = "done" /\ verifies) =>
           ElementsOf(synced_repos) = ReachableFrom({origin_repo})
    /\ (sync_pc = "done" /\ ~verifies) => synced_repos = <<origin_repo>>

====
